---------------------------- MODULE Spec2Model ----------------------------
(***************************************************************************)
(* The translation synchronisation pipeline of i18nWeave: the watch        *)
(* dispatcher, the file lock store, the translation store and the          *)
(* TranslationModule (diff -> filter -> translate -> apply -> write).      *)
(*                                                                         *)
(* One change event is one task.  A task is suspended exactly at the       *)
(* awaits of the code (location index update, file read, provider call,    *)
(* file write); everything between two awaits is one atomic action.        *)
(***************************************************************************)
EXTENDS Integers, Sequences, FiniteSets, TLC

VARIABLES
    tracked,     \* FileLocationStore: the translation files of the workspace
    file,        \* path -> text on disk
    store,       \* TranslationStore._translationFileContents: path -> tree
    locks,       \* FileLockStore: the set of locked paths
    timers,      \* pending setTimeout callbacks (FIFO, equal delay)
    pending,     \* change notifications of the watcher not yet delivered
    tasks,       \* the executions of the handler chain, in dispatch order
    status,      \* the status bar state
    disabled,    \* what the disable flags return
    dropped,     \* paths for which an event was dropped because of a lock
    edits,       \* number of edits done by the user so far
    faults       \* number of I/O and provider failures so far

(* The handler chain (BaseActionModule), taken on its own *)
VARIABLES
    nextModule,  \* BaseActionModule.nextModule of each module (0: null)
    doExecute,   \* what doExecute of each module does for the event in hand
    executing,   \* the module whose execute awaits its doExecute (0: none)
    executed,    \* the modules whose doExecute ran for the event, in order
    settled      \* how execute of the first module ended for the event

chainVars == <<nextModule, doExecute, executing, executed, settled>>

(* The callback of the file watchers (FileWatcherCreator), on its own *)
VARIABLES
    disableFlags, \* what each disable flag returns when it is called now
    watchers,     \* the file watchers created, each with its handler
    lastEvent     \* the last change event delivered by a watcher

watchVars == <<disableFlags, watchers, lastEvent>>

(* The diff engine and the apply step, as functions of two trees *)
VARIABLES
    treeA,       \* the old tree
    treeB,       \* the new tree
    rebuilt,     \* the old tree after the entries of the diff were applied
    applied      \* whether they have been applied

diffVars == <<treeA, treeB, rebuilt, applied>>

(* The translation result cache *)
VARIABLES
    now,         \* the clock
    cache,       \* key -> CacheEntry, or none
    provider,    \* what the provider would return for the key now
    lastGet      \* the last lookup and what it returned

cacheVars == <<now, cache, provider, lastGet>>

(* The relevant-change filter, as a function of a list of diff entries *)
VARIABLES
    filterDiffs, \* the diff entries given to extractRelevantChanges
    filterKept,  \* what it returned
    filterDone   \* whether it has been called

filterVars == <<filterDiffs, filterKept, filterDone>>

(* translateChanges, as a loop over the target files of one event *)
VARIABLES
    tcChanges,   \* the relevant changes of the event, in diff order
    tcContent,   \* target file -> the content read from it
    tcIndex,     \* the number of target files the loop is through with
    tcCalls,     \* the provider calls made, in order
    translationsByLanguage, \* target file -> the entries assigned to it
    tcState      \* running, returned or threw

translateVars == <<tcChanges, tcContent, tcIndex, tcCalls,
                   translationsByLanguage, tcState>>

(* applyDiffsToJSON, as a function of a tree and the entries assigned *)
VARIABLES
    applyTarget, \* the tree parsed from the target file
    applyDiffs,  \* the entries assigned to the target file
    applyResult, \* the tree after applyDiffsToJSON
    applyDone    \* whether it has been called

applyVars == <<applyTarget, applyDiffs, applyResult, applyDone>>

pipelineVars == <<tracked, file, store, locks, timers, pending, tasks, status,
                  disabled, dropped, edits, faults>>

(* the state of the parts that the pipeline does not touch *)
restVars == <<chainVars, watchVars, diffVars, cacheVars, filterVars,
              translateVars,
              applyVars>>

vars == <<pipelineVars, restVars>>

---------------------------------------------------------------------------
(* Bounds of the model *)

(* the tasks have at most this many sibling files to process in total *)
MaxTargets == 3
MaxEdits == 2
MaxFaults == 1
(* the number of modules that can be linked into a chain *)
NumModules == 3
(* the number of disable flags given to the watcher creator *)
NumFlags == 2
(* the clock of the cache runs up to this time *)
MaxTime == 4
(* the largest time to live given to set *)
MaxTtl == 2
(* the longest list of diff entries given to the filter on its own *)
MaxEntries == 2

FileSeq == <<"en", "fr", "de">>
Files == {FileSeq[n] : n \in 1..Len(FileSeq)}
KeySeq == <<"a", "b">>
Keys == {KeySeq[n] : n \in 1..Len(KeySeq)}

---------------------------------------------------------------------------
(* JSON trees.  A node is a string, null, an object or (for a path that    *)
(* resolves to nothing) undefined.                                         *)

Undef == [t |-> "undef", s |-> "", m |-> <<>>]
Null == [t |-> "null", s |-> "", m |-> <<>>]
Str(x) == [t |-> "str", s |-> x, m |-> <<>>]
Obj(f) == [t |-> "obj", s |-> "", m |-> f]

(* the keys of an object in iteration order *)
KeysOf(node) == SelectSeq(KeySeq, LAMBDA k : k \in DOMAIN node.m)

(* obj?.[key] *)
Member(node, k) ==
    IF node.t = "obj" /\ k \in DOMAIN node.m THEN node.m[k] ELSE Undef

(* path.reduce((obj, key) => obj?.[key], root) *)
RECURSIVE Resolve(_, _)
Resolve(node, path) ==
    IF path = <<>> THEN node
    ELSE Resolve(Member(node, Head(path)), Tail(path))

(* the object with key k set to v *)
WithKey(node, k, v) ==
    Obj([x \in (DOMAIN node.m) \cup {k} |-> IF x = k THEN v ELSE node.m[x]])

(* the object without key k *)
WithoutKey(node, k) ==
    Obj([x \in (DOMAIN node.m) \ {k} |-> node.m[x]])

(* applyChange for an edit: the value at path becomes v *)
RECURSIVE SetPath(_, _, _)
SetPath(node, path, v) ==
    IF path = <<>> THEN v
    ELSE LET base == IF node.t = "obj" THEN node ELSE Obj(<<>>)
         IN  WithKey(base, Head(path),
                     SetPath(Member(base, Head(path)), Tail(path), v))

(* lodash unset(target, path) *)
RECURSIVE UnsetPath(_, _)
UnsetPath(node, path) ==
    IF path = <<>> \/ node.t # "obj" \/ Head(path) \notin DOMAIN node.m
    THEN node
    ELSE IF Len(path) = 1 THEN WithoutKey(node, Head(path))
    ELSE WithKey(node, Head(path), UnsetPath(node.m[Head(path)], Tail(path)))

RECURSIVE Flatten(_)
Flatten(ss) == IF ss = <<>> THEN <<>> ELSE Head(ss) \o Flatten(Tail(ss))

SeqMap(Op(_), s) == [n \in 1..Len(s) |-> Op(s[n])]

(* A diff entry: kind N (new), E (edited), D (deleted) *)
Entry(kind, path, lhs, rhs) ==
    [kind |-> kind, path |-> path, lhs |-> lhs, rhs |-> rhs]

(* diffJsonObjects: the keys of the old object first, then the new keys *)
RECURSIVE DiffAt(_, _, _)
DiffAt(path, l, r) ==
    IF l.t = "undef" THEN <<Entry("N", path, Undef, r)>>
    ELSE IF r.t = "undef" THEN <<Entry("D", path, l, Undef)>>
    ELSE IF l.t = "obj" /\ r.t = "obj"
    THEN LET old == KeysOf(l)
             new == SelectSeq(KeysOf(r), LAMBDA k : k \notin DOMAIN l.m)
             sub(k) == DiffAt(Append(path, k), Member(l, k), Member(r, k))
         IN  Flatten(SeqMap(sub, old \o new))
    ELSE IF l = r THEN <<>>
    ELSE <<Entry("E", path, l, r)>>

diffJsonObjects(l, r) == DiffAt(<<>>, l, r)

(* for (const key in obj): the string values of obj and of its objects;   *)
(* over a string the loop visits its characters                           *)
RECURSIVE getAllStringValues(_)
getAllStringValues(node) ==
    IF node.t = "str" THEN (IF node.s = "" THEN <<>> ELSE <<node.s>>)
    ELSE IF node.t = "obj"
    THEN LET one(k) ==
                 LET v == node.m[k]
                 IN  IF v.t = "str" THEN <<v.s>>
                     ELSE IF v.t = "obj" THEN getAllStringValues(v)
                     ELSE <<>>
         IN  Flatten(SeqMap(one, KeysOf(node)))
    ELSE <<>>

(* the filter, had it let deletions through *)
IsRelevantWithDeleted(e) ==
    /\ e.kind \in {"N", "E", "D"}
    /\ e.rhs # Str("")
    /\ (e.kind = "D" \/
        Len(SelectSeq(getAllStringValues(e.rhs), LAMBDA v : v # "")) > 0)

(* a filter that looks at the strings of the new value's own keys only *)
IsRelevantShallow(e) ==
    /\ e.kind \in {"N", "E"}
    /\ e.rhs # Str("")
    /\ \/ e.rhs.t = "str"
       \/ e.rhs.t = "obj" /\ \E k \in DOMAIN e.rhs.m :
                                e.rhs.m[k].t = "str" /\ e.rhs.m[k].s # ""

(* the predicate of extractRelevantChanges *)
IsRelevant(e) ==
    /\ e.kind \in {"N", "E"}
    /\ e.rhs # Str("")
    /\ Len(SelectSeq(getAllStringValues(e.rhs), LAMBDA v : v # "")) > 0

extractRelevantChanges(diffs) == SelectSeq(diffs, IsRelevant)

(* currentValue === undefined || currentValue === null || currentValue === '' *)
IsCandidate(tree, e) ==
    LET cur == Resolve(tree, e.path)
    IN  cur.t = "undef" \/ cur.t = "null" \/ cur = Str("")

(* The provider: what it returns for one value *)
Tr(v) == IF v = Str("p") THEN Str("P") ELSE IF v = Str("q") THEN Str("Q") ELSE v

translateKeys(values) == SeqMap(Tr, values)

(* an assignment that gives the returned values out in reverse *)
AssignedReversed(cand, translated) ==
    [n \in 1..Len(cand) |->
        [cand[n] EXCEPT !.rhs = translated[Len(cand) + 1 - n]]]

(* translationsByLanguage[targetLanguage]: the candidates with the i-th   *)
(* returned value as rhs                                                  *)
Assigned(cand, translated) ==
    [n \in 1..Len(cand) |-> [cand[n] EXCEPT !.rhs = translated[n]]]

ApplyOne(target, e) ==
    IF e.kind = "D" THEN
        (IF e.path # <<>> THEN UnsetPath(target, e.path) ELSE target)
    ELSE IF e.kind \in {"E", "A"} THEN
        (IF Resolve(target, e.path).t # "undef"
         THEN SetPath(target, e.path, e.rhs) ELSE target)
    ELSE target

RECURSIVE applyDiffsToJSON(_, _)
applyDiffsToJSON(target, diffs) ==
    IF diffs = <<>> THEN target
    ELSE applyDiffsToJSON(ApplyOne(target, Head(diffs)), Tail(diffs))

(* A text: malformed, or the serialisation of a tree, with or without a   *)
(* trailing newline                                                       *)
Text(tree, nl) == [bad |-> FALSE, nl |-> nl, tree |-> tree]
BadText == [bad |-> TRUE, nl |-> FALSE, tree |-> Undef]

(* JSON.stringify, then the newline rule of applyTranslationsToFiles *)
Stringify(tree, endsWithNewLine) == Text(tree, endsWithNewLine)


(* JSON.parse as used on a text known to be well formed *)
Parse(text) == text.tree

---------------------------------------------------------------------------
(* The state *)

NoTrees == [f \in Files |-> Undef]
NoEntries == [f \in Files |-> <<>>]

(* findRelatedFiles: the other translation files of the same base name *)
findRelatedFiles(src) == SelectSeq(tracked, LAMBDA f : f # src)

Target(tk) == findRelatedFiles(tk.src)[tk.i]

NewTask(src, cause, by, content, others) ==
    [src |-> src, cause |-> cause, by |-> by, content |-> content,
     pc |-> "start",
     diffs |-> <<>>, changes |-> <<>>, i |-> 0, cand |-> <<>>,
     trans |-> NoEntries, wtext |-> BadText,
     \* history of the task, read by the properties only
     overlap |-> others, calls |-> {}, snap |-> NoTrees, reread |-> NoTrees,
     over |-> NoTrees, wrote |-> NoTrees, excused |-> {}, unread |-> {},
     failure |-> "", failedOn |-> {}, onlyDeleted |-> FALSE,
     running |-> FALSE, reset |-> FALSE, outcome |-> ""]

(* the task has returned: its locals are gone *)
Done(tk, outcome) ==
    [tk EXCEPT !.pc = "done", !.outcome = outcome, !.i = 0, !.cand = <<>>,
               !.diffs = <<>>, !.changes = <<>>, !.wtext = BadText]

Active == {n \in 1..Len(tasks) : tasks[n].pc # "done"}

InitTrees ==
    { Obj([k \in {"a"} |-> Str("")]), Obj([k \in Keys |-> Str("")]) }

Workspaces == { SubSeq(FileSeq, 1, n) : n \in 2..Len(FileSeq) }

TrackedFiles == {tracked[n] : n \in 1..Len(tracked)}

(* room for one more task *)
HasRoom == (Len(tasks) + 1) * (Len(tracked) - 1) <= MaxTargets

Modules == 1..NumModules

(* no chain has been composed, no event is in hand *)
ChainIdle ==
    /\ nextModule = [m \in Modules |-> 0]
    /\ doExecute = [m \in Modules |-> "continue"]
    /\ executing = 0
    /\ executed = <<>>
    /\ settled = ""

Flags == 1..NumFlags

NoEvent == [file |-> "", flags |-> <<>>, then |-> <<>>, handler |-> FALSE,
            invoked |-> 0]

(* no watcher has been created *)
WatchIdle ==
    /\ disableFlags = [i \in Flags |-> FALSE]
    /\ watchers = {}
    /\ lastEvent = NoEvent

(* no trees in hand *)
DiffIdle ==
    /\ treeA = [t |-> "undef", s |-> "", m |-> <<>>]
    /\ treeB = [t |-> "undef", s |-> "", m |-> <<>>]
    /\ rebuilt = [t |-> "undef", s |-> "", m |-> <<>>]
    /\ applied = FALSE

CacheKeys == {"languages"}

NoCacheEntry == [present |-> FALSE, value |-> 0, timestamp |-> 0, ttl |-> 0]

NoGet == [key |-> "", at |-> 0, hit |-> FALSE, value |-> 0,
          found |-> NoCacheEntry]

(* the cache is empty *)
CacheIdle ==
    /\ now = 0
    /\ cache = [k \in CacheKeys |-> NoCacheEntry]
    /\ provider = [k \in CacheKeys |-> 1]
    /\ lastGet = NoGet

(* the filter has not been called *)
FilterIdle ==
    /\ filterDiffs = <<>>
    /\ filterKept = <<>>
    /\ filterDone = FALSE

(* translateChanges has not been called *)
TranslateIdle ==
    /\ tcChanges = <<>>
    /\ tcContent = [f \in {} |-> 0]
    /\ tcIndex = 0
    /\ tcCalls = <<>>
    /\ translationsByLanguage = [f \in {} |-> 0]
    /\ tcState = ""

(* applyDiffsToJSON has not been called *)
ApplyIdle ==
    /\ applyTarget = [t |-> "undef", s |-> "", m |-> <<>>]
    /\ applyDiffs = <<>>
    /\ applyResult = [t |-> "undef", s |-> "", m |-> <<>>]
    /\ applyDone = FALSE

Init ==
    /\ ChainIdle /\ WatchIdle /\ DiffIdle /\ CacheIdle /\ FilterIdle /\ TranslateIdle /\ ApplyIdle
    /\ tracked \in Workspaces
    /\ \E tree \in InitTrees :
         /\ file = [f \in Files |-> Text(tree, f = "en")]
         /\ store = [f \in Files |-> tree]
    /\ locks = {}
    /\ timers = <<>>
    /\ pending = {}
    /\ tasks = <<>>
    /\ status = "idle"
    /\ disabled = FALSE
    /\ dropped = {}
    /\ edits = 0
    /\ faults = 0

---------------------------------------------------------------------------
(* The user: edits of the files that the watcher reports *)

UserEvent(f) == [file |-> f, cause |-> "user", by |-> 0]
PipeEvent(f, n) == [file |-> f, cause |-> "pipe", by |-> n]

EditVals == {Undef, Str("p")}

UserEdit(f, k, v) ==
    /\ f \in TrackedFiles
    /\ edits < MaxEdits
    /\ ~file[f].bad
    /\ file' = [file EXCEPT ![f].tree =
                   IF v = Undef THEN WithoutKey(@, k) ELSE WithKey(@, k, v)]
    /\ pending' = pending \cup {UserEvent(f)}
    /\ edits' = edits + 1
    /\ UNCHANGED restVars
    /\ UNCHANGED <<tracked, store, locks, timers, tasks, status, disabled,
                   dropped,
                   faults>>

UserCorrupt(f) ==
    /\ f \in TrackedFiles
    /\ edits < MaxEdits
    /\ ~file[f].bad
    /\ file' = [file EXCEPT ![f] = BadText]
    /\ pending' = pending \cup {UserEvent(f)}
    /\ edits' = edits + 1
    /\ UNCHANGED restVars
    /\ UNCHANGED <<tracked, store, locks, timers, tasks, status, disabled,
                   dropped,
                   faults>>

---------------------------------------------------------------------------
(* The watch dispatcher *)

(* !disableFlags.some(flag => flag()) *)
IsEnabled == ~disabled

(* FileLockStore *)
hasFileLock(f) == f \in locks
addLock(f) == locks \cup {f}
deleteLock(f) == locks \ {f}

(* The start of doExecuteAsync, up to its first await *)
Started(tk) ==
    IF tk.content.bad THEN Done(tk, "threw")
    ELSE LET old == IF store[tk.src] = Undef THEN Obj(<<>>)
                    ELSE store[tk.src]
             diffs == diffJsonObjects(old, Parse(tk.content))
         IN  IF diffs = <<>> THEN Done(tk, "nodiffs")
             ELSE [tk EXCEPT !.pc = "index", !.diffs = diffs,
                             !.onlyDeleted =
                                 \A n \in 1..Len(diffs) : diffs[n].kind = "D"]

(* a dispatcher that never looks at the lock store *)
NeverDrop(f) == FALSE

(* handleFileChangeAsync: an event for a locked path is dropped *)
ShouldDrop(f) == hasFileLock(f)

Dispatch(e) ==
    /\ e \in pending
    /\ pending' = pending \ {e}
    /\ IF ~IsEnabled
       THEN UNCHANGED <<tracked, tasks, dropped>>
       ELSE IF ShouldDrop(e.file)
       THEN /\ dropped' = dropped \cup {e.file}
            /\ UNCHANGED tasks
       ELSE /\ HasRoom
            /\ tasks' = Append(tasks,
                   Started(NewTask(e.file, e.cause, e.by, file[e.file],
                                   Active)))
            /\ UNCHANGED dropped
    /\ UNCHANGED restVars
    /\ UNCHANGED <<tracked, file, store, locks, timers, status, disabled,
                   edits,
                   faults>>

(* setTimeout(() => FileLockStore.delete(fileUri), 500): the callbacks run *)
(* in the order they were scheduled.  A notification of the write that did *)
(* not arrive within the delay is not followed further.                    *)
TimerFire ==
    /\ timers # <<>>
    /\ locks' = deleteLock(Head(timers).file)
    /\ pending' = pending \ {PipeEvent(Head(timers).file, Head(timers).by)}
    /\ timers' = Tail(timers)
    /\ UNCHANGED restVars
    /\ UNCHANGED <<tracked, file, store, tasks, status, disabled, dropped,
                   edits,
                   faults>>

---------------------------------------------------------------------------
(* TranslationModule: the continuations of doExecuteAsync *)

(* a catch that returns without the finally block *)
CaughtNoFinally(tk, outcome) == Done(tk, outcome)

(* catch: log and return; finally: setIdle *)
Caught(tk, outcome) == [Done(tk, outcome) EXCEPT !.reset = TRUE]

(* the code after applyTranslationsToFiles: updateEntry of the originating *)
(* file, then finally: setIdle                                             *)
Finished(tk) == [Done(tk, "ok") EXCEPT !.reset = TRUE]

(* applyTranslationsToFiles: the loop from target number `from` up to the  *)
(* next await; targets whose lock is held are passed over                  *)
ApplyFrom(tk, from) ==
    LET ts == findRelatedFiles(tk.src)
        open == {j \in from..Len(ts) : ~hasFileLock(ts[j])}
    IN  IF open = {}
        THEN Finished([tk EXCEPT !.excused =
                          @ \cup {ts[j] : j \in from..Len(ts)}])
        ELSE LET j == CHOOSE x \in open : \A y \in open : x <= y
             IN  [tk EXCEPT !.pc = "apRead", !.i = j, !.cand = <<>>,
                            !.excused = @ \cup {ts[x] : x \in from..(j - 1)}]

(* translateChanges: on to the next target file, or return and go on with  *)
(* applyTranslationsToFiles                                                *)
TranslateNext(tk) ==
    IF tk.i < Len(findRelatedFiles(tk.src))
    THEN [tk EXCEPT !.pc = "trRead", !.i = tk.i + 1, !.cand = <<>>]
    ELSE ApplyFrom(tk, 1)

(* a provider failure that is swallowed inside the loop *)
ProviderFailureSwallowed(tk) == TranslateNext(tk)

(* a rejected provider call after which the code of line 90 would run *)
ProviderFailureCommits(tk) == Finished(tk)

(* the rejected provider call leaves translateChanges and is caught *)
ProviderFailed(tk) == Caught(tk, "caught")

(* the rejected read or the SyntaxError of JSON.parse in translateChanges  *)
(* is caught by doExecuteAsync                                             *)
TranslateReadFailed(tk) == Caught(tk, "caught")

(* a rejected write that is logged, the loop going on with the next target *)
WriteFailureSkipsSibling(tk) == ApplyFrom(tk, tk.i + 1)

(* a rejected write after which the code of line 90 would still run *)
WriteFailureCommits(tk) == Finished(tk)

(* the rejected write leaves applyTranslationsToFiles and is caught *)
WriteFailed(tk) == Caught(tk, "caught")

(* what went wrong, and on which file: kept for the properties *)
Failing(tk, what) ==
    [tk EXCEPT !.failure = what,
               !.failedOn = IF tk.i = 0 THEN @ ELSE @ \cup {Target(tk)}]

(* The step of task n to tk2, with the store as left by the step's own     *)
(* updateEntry of a target (base): the status bar calls and the commit of  *)
(* the originating file                                                    *)
Step(n, tk2, base) ==
    /\ tasks' = [tasks EXCEPT ![n] = tk2]
    /\ status' = IF tk2.reset /\ ~tasks[n].reset THEN "idle"
                 ELSE IF tk2.running /\ ~tasks[n].running THEN "running"
                 ELSE status
    /\ store' = IF tk2.outcome = "ok"
                THEN [base EXCEPT ![tk2.src] = Parse(tk2.content)]
                ELSE base

Fault(ok) ==
    /\ ~ok => faults < MaxFaults
    /\ faults' = IF ok THEN faults ELSE faults + 1

(* await FileLocationStore.addOrUpdateFile, extractRelevantChanges,        *)
(* updateState(Running), the first read of translateChanges                *)
IndexDone(n, ok) ==
    /\ n \in 1..Len(tasks) /\ tasks[n].pc = "index"
    /\ Fault(ok)
    /\ LET tk == tasks[n]
           changes == extractRelevantChanges(tk.diffs)
       IN  Step(n,
                IF ~ok THEN Done(Failing(tk, "index"), "threw")
                ELSE IF changes = <<>> THEN Done(tk, "norelevant")
                ELSE [tk EXCEPT !.changes = changes, !.running = TRUE,
                                !.diffs = <<>>, !.pc = "trRead", !.i = 1],
                store)
    /\ UNCHANGED restVars
    /\ UNCHANGED <<tracked, file, locks, timers, pending, disabled, dropped,
                   edits>>

(* translateChanges: the read of a target returns *)
TranslateRead(n, ok) ==
    /\ n \in 1..Len(tasks) /\ tasks[n].pc = "trRead"
    /\ Fault(ok)
    /\ LET tk == tasks[n]
           text == file[Target(tk)]
           cand == SelectSeq(tk.changes,
                             LAMBDA e : IsCandidate(Parse(text), e))
           read == [tk EXCEPT !.snap[Target(tk)] = Parse(text)]
       IN  Step(n,
                IF ~ok THEN TranslateReadFailed(Failing(tk, "read"))
                ELSE IF text.bad
                THEN TranslateReadFailed(Failing(tk, "parse"))
                ELSE IF cand # <<>>
                THEN [read EXCEPT !.pc = "trCall", !.cand = cand,
                                  !.calls = @ \cup {Target(tk)}]
                ELSE TranslateNext(read),
                store)
    /\ UNCHANGED restVars
    /\ UNCHANGED <<tracked, file, locks, timers, pending, disabled, dropped,
                   edits>>

(* translateChanges: the provider call returns *)
TranslateCall(n, ok) ==
    /\ n \in 1..Len(tasks) /\ tasks[n].pc = "trCall"
    /\ Fault(ok)
    /\ LET tk == tasks[n]
           values == SeqMap(LAMBDA e : e.rhs, tk.cand)
       IN  Step(n,
                IF ~ok THEN ProviderFailed(Failing(tk, "provider"))
                ELSE TranslateNext(
                       [tk EXCEPT !.trans[Target(tk)] =
                                     Assigned(tk.cand, translateKeys(values))]),
                store)
    /\ UNCHANGED restVars
    /\ UNCHANGED <<tracked, file, locks, timers, pending, disabled, dropped,
                   edits>>

(* an apply step that works on the content translateChanges read *)
SnapshotContent(tk, f) ==
    IF tk.snap[f] = Undef THEN file[f] ELSE Text(tk.snap[f], file[f].nl)

(* await FileReader.readWorkspaceFileAsync(fileUri) in the apply step: the *)
(* content of the file now                                                 *)
FreshContent(tk, f) == file[f]

(* applyTranslationsToFiles: the read of a target returns; the diffs are   *)
(* applied, the lock is added and the write is issued                      *)
ApplyRead(n, ok) ==
    /\ n \in 1..Len(tasks) /\ tasks[n].pc = "apRead"
    /\ Fault(ok)
    /\ LET tk == tasks[n]
           f == Target(tk)
           text == FreshContent(tk, f)
           skip == ApplyFrom([tk EXCEPT !.excused = @ \cup {f},
                                        !.unread = @ \cup {f}], tk.i + 1)
           tree == applyDiffsToJSON(Parse(text), tk.trans[f])
       IN  IF ~ok \/ text.bad
           THEN Step(n, skip, store) /\ UNCHANGED locks
           ELSE /\ Step(n, [tk EXCEPT !.pc = "apWrite",
                                      !.wtext = Stringify(tree, text.nl),
                                      !.reread[f] = Parse(text)],
                        store)
                /\ locks' = addLock(f)
    /\ UNCHANGED restVars
    /\ UNCHANGED <<tracked, file, timers, pending, disabled, dropped, edits>>

(* the write reaches the disk; the watcher will report it *)
WriteLand(n) ==
    /\ n \in 1..Len(tasks) /\ tasks[n].pc = "apWrite"
    /\ LET tk == tasks[n]
           f == Target(tk)
       IN  /\ file' = [file EXCEPT ![f] = tk.wtext]
           /\ pending' = pending \cup {PipeEvent(f, n)}
           /\ tasks' = [tasks EXCEPT ![n].pc = "apWritten",
                                     ![n].over[f] = Parse(file[f]),
                                     ![n].wrote[f] = Parse(tk.wtext)]
    /\ UNCHANGED restVars
    /\ UNCHANGED <<tracked, store, locks, timers, status, disabled, dropped,
                   edits,
                   faults>>

(* the write is rejected *)
WriteFail(n) ==
    /\ n \in 1..Len(tasks) /\ tasks[n].pc = "apWrite"
    /\ Fault(FALSE)
    /\ Step(n, WriteFailed(Failing(tasks[n], "write")), store)
    /\ UNCHANGED restVars
    /\ UNCHANGED <<tracked, file, locks, timers, pending, disabled, dropped,
                   edits>>

(* the write returns: the release of the lock is scheduled, the store      *)
(* entry of the target is updated, the loop goes on                        *)
WriteDone(n) ==
    /\ n \in 1..Len(tasks) /\ tasks[n].pc = "apWritten"
    /\ LET tk == tasks[n]
           f == Target(tk)
       IN  /\ timers' = Append(timers, [file |-> f, by |-> n])
           /\ Step(n, ApplyFrom(tk, tk.i + 1),
                   [store EXCEPT ![f] = Parse(tk.wtext)])
    /\ UNCHANGED restVars
    /\ UNCHANGED <<tracked, file, locks, pending, disabled, dropped, edits,
                   faults>>

---------------------------------------------------------------------------

Next ==
    \/ \E f \in Files, k \in Keys, v \in EditVals : UserEdit(f, k, v)
    \/ \E f \in Files : UserCorrupt(f)
    \/ \E e \in pending : Dispatch(e)
    \/ TimerFire
    \/ \E n \in 1..MaxTargets, ok \in BOOLEAN : IndexDone(n, ok)
    \/ \E n \in 1..MaxTargets, ok \in BOOLEAN : TranslateRead(n, ok)
    \/ \E n \in 1..MaxTargets, ok \in BOOLEAN : TranslateCall(n, ok)
    \/ \E n \in 1..MaxTargets, ok \in BOOLEAN : ApplyRead(n, ok)
    \/ \E n \in 1..MaxTargets : WriteLand(n)
    \/ \E n \in 1..MaxTargets : WriteFail(n)
    \/ \E n \in 1..MaxTargets : WriteDone(n)

Spec == Init /\ [][Next]_vars

(* Every read, provider call and write returns or fails in the end, and a  *)
(* continuation that is ready runs.                                        *)
TaskStep ==
    \E n \in 1..MaxTargets :
        \/ \E ok \in BOOLEAN : IndexDone(n, ok)
        \/ \E ok \in BOOLEAN : TranslateRead(n, ok)
        \/ \E ok \in BOOLEAN : TranslateCall(n, ok)
        \/ \E ok \in BOOLEAN : ApplyRead(n, ok)
        \/ WriteLand(n)
        \/ WriteFail(n)
        \/ WriteDone(n)

FairSpec == Spec /\ WF_vars(TaskStep)

---------------------------------------------------------------------------
(* Properties *)

TaskIds == 1..Len(tasks)

(* the targets for which the task has added the lock and issued the write *)
Issued(tk) == {f \in Files : tk.reread[f] # Undef}

(* the targets whose file the task has written *)
Written(tk) == {f \in Files : tk.wrote[f] # Undef}

Siblings(tk) == {f \in TrackedFiles : f # tk.src}

NonEmptyString(v) == v.t = "str" /\ v.s # ""

(* the task wrote the target, or passed over it for a reason of the        *)
(* target's own (lock held, unreadable or malformed at the re-read)        *)
Processed(tk, f) == f \in Written(tk) \/ f \in tk.excused


(* C1: an event caused by a write of the pipeline itself, delivered        *)
(* between the start of that write and the end of its grace delay and      *)
(* seeing the content that write produced, leads to no provider call and   *)
(* to no further file write.                                               *)
C1_OwnWriteNeverRetriggers ==
    \A n \in TaskIds :
        LET tk == tasks[n]
        IN  (/\ tk.cause = "pipe"
             /\ ~tk.content.bad
             /\ Parse(tk.content) = tasks[tk.by].wrote[tk.src])
            => tk.calls = {} /\ Issued(tk) = {}

C3_OneWritePerSibling ==
    \A n \in TaskIds, m \in TaskIds :
        (n < m /\ tasks[n].src = tasks[m].src /\ n \in tasks[m].overlap)
        => Written(tasks[n]) \cap Written(tasks[m]) = {}

(* C4: where the sibling holds a non-empty value at a changed path at the  *)
(* moment it is written (here: a value already there at the re-read), the  *)
(* written content has the same value at that path.                        *)
C4_NonEmptyValueKept ==
    \A n \in TaskIds :
        LET tk == tasks[n]
            f == Target(tk)
        IN  (tk.pc = "apWritten" /\ tk.over[f] = tk.reread[f])
            => \A x \in 1..Len(tk.changes) :
                 LET p == tk.changes[x].path
                 IN  NonEmptyString(Resolve(tk.over[f], p))
                     => Resolve(tk.wrote[f], p) = Resolve(tk.over[f], p)

(* C5: after an event that completed without error, a sibling that lacked  *)
(* an added key and was written by the event holds at that key the value   *)
(* the provider returned.                                                  *)
C5_AddedKeyPropagated ==
    \A n \in TaskIds : \A f \in Files :
        LET tk == tasks[n]
        IN  (tk.pc = "done" /\ tk.outcome = "ok" /\ f \in Written(tk))
            => \A x \in 1..Len(tk.trans[f]) :
                 LET e == tk.trans[f][x]
                 IN  (e.kind = "N" /\ Resolve(tk.reread[f], e.path) = Undef)
                     => Resolve(tk.wrote[f], e.path) = e.rhs

(* C6: an event whose diff holds only Deleted entries makes no provider    *)
(* call, adds no lock and writes no sibling.                               *)
C6_DeletionsNotPropagated ==
    \A n \in TaskIds :
        tasks[n].onlyDeleted
        => /\ tasks[n].calls = {}
           /\ Issued(tasks[n]) = {}
           /\ Written(tasks[n]) = {}

(* C6, its case: an event with only Deleted entries has run to its end *)
C6_DeletionEventDone ==
    \E n \in TaskIds : tasks[n].onlyDeleted /\ tasks[n].pc = "done"

(* C7: an event in which a provider call failed adds no lock and writes no *)
(* sibling file, whatever calls succeeded before.                          *)
C7_ProviderFailureWritesNothing ==
    \A n \in TaskIds :
        tasks[n].failure = "provider"
        => Issued(tasks[n]) = {} /\ Written(tasks[n]) = {}

(* C7, its case: the provider failed after a call for an earlier sibling   *)
(* had succeeded                                                           *)
C7_FailedAfterSuccess ==
    \E n \in TaskIds :
        /\ tasks[n].failure = "provider"
        /\ tasks[n].pc = "done"
        /\ \E f \in Files : tasks[n].trans[f] # <<>>

(* some event has set the status to running and not yet reset it *)
Busy == \E m \in TaskIds : tasks[m].running /\ ~tasks[m].reset

(* C8: every event that has set the status indicator to running resets it  *)
(* to idle in the end, whatever the outcome.                               *)
C8_RunningLeadsToIdle ==
    \A n \in 1..MaxTargets :
        (n <= Len(tasks) /\ tasks[n].running)
          ~> (n <= Len(tasks) /\ tasks[n].reset /\ (status = "idle" \/ Busy))

(* C8, its case: an event that failed after setting the status to running  *)
(* has reset it                                                            *)
C8_FailedEventReset ==
    \E n \in TaskIds :
        /\ tasks[n].running /\ tasks[n].reset
        /\ tasks[n].failure \in {"read", "parse", "provider", "write"}
        /\ status = "idle"

(* C9: when a sibling is malformed, every other sibling that is unlocked   *)
(* and well formed is still processed by the event.                        *)
C9_MalformedSiblingOnlySkipped ==
    \A n \in TaskIds :
        LET tk == tasks[n]
        IN  (tk.pc = "done" /\ tk.failure = "parse")
            => \A f \in Siblings(tk) \ tk.failedOn :
                 (f \notin locks /\ ~file[f].bad) => Processed(tk, f)

(* C10: when the read or the write of a sibling fails, every other sibling *)
(* that is unlocked and well formed is still processed by the event.       *)
C10_SiblingIoFailureDoesNotAbort ==
    \A n \in TaskIds :
        LET tk == tasks[n]
        IN  (tk.pc = "done" /\ tk.failure \in {"read", "write"})
            => \A f \in Siblings(tk) \ tk.failedOn :
                 (f \notin locks /\ ~file[f].bad) => Processed(tk, f)

(* the siblings that come after k in the order of findRelatedFiles *)
After(tk, k) ==
    LET ts == findRelatedFiles(tk.src)
    IN  {ts[j] : j \in {x \in 1..Len(ts) : \E y \in 1..(x - 1) : ts[y] = k}}

(* nobody but task n can have changed file f or its store entry: the user  *)
(* has not edited it and no other task has written it or run for it        *)
Untouched(n, f) ==
    /\ UserEvent(f) \notin pending
    /\ f \notin dropped
    /\ \A m \in TaskIds \ {n} :
         tasks[m].src # f /\ f \notin Issued(tasks[m])

(* C11: when the write of sibling k is rejected, the event issues no write *)
(* for a sibling after k, and every sibling it wrote before k keeps the    *)
(* written content on disk and in the store (no rollback).  (A failed      *)
(* re-read of k is not such an error: it only passes over k.)              *)
C11_WriteFailureStopsWithoutRollback ==
    \A n \in TaskIds :
        LET tk == tasks[n]
        IN  tk.failure = "write"
            => /\ \A k \in tk.failedOn : After(tk, k) \cap Issued(tk) = {}
               /\ \A f \in Written(tk) :
                    Untouched(n, f)
                    => /\ store[f] = tk.wrote[f]
                       /\ ~file[f].bad
                       /\ Parse(file[f]) = tk.wrote[f]

(* C11, its case: a write was rejected after an earlier sibling had been   *)
(* written by the same event                                               *)
C11_WriteFailedAfterWrittenSibling ==
    \E n \in TaskIds :
        /\ tasks[n].failure = "write" /\ tasks[n].pc = "done"
        /\ \E f \in Written(tasks[n]) : Untouched(n, f)

(* C11 as stated: after any error in the apply/write step of sibling k,    *)
(* the failed re-read included, no sibling after k is written.             *)
C11_AnyApplyErrorStopsSiblings ==
    \A n \in TaskIds :
        LET tk == tasks[n]
            failed == tk.unread \cup
                      (IF tk.failure = "write" THEN tk.failedOn ELSE {})
        IN  \A k \in failed : After(tk, k) \cap Issued(tk) = {}

(* BaseActionModule.execute awaits doExecute without a catch, and so does   *)
(* the watcher callback: an error thrown by doExecuteAsync outside its try  *)
(* block rejects the execution of the chain                                *)
ChainRejected(tk) == tk.outcome = "threw"

(* C12: for every change event, also one whose content is malformed JSON   *)
(* or whose location index update fails, the execution of the handler      *)
(* chain completes without an error.                                       *)
C12_NoFailureEscapes ==
    \A n \in TaskIds : ~ChainRejected(tasks[n])

(* C14: the lock on a path is held from before a pipeline write to it      *)
(* starts until the grace delay after that write's completion has elapsed: *)
(* while a write is in flight, and while the release timer of a completed  *)
(* write is pending, the path is locked.                                   *)
C14_LockHeldThroughWriteAndGrace ==
    /\ \A n \in TaskIds :
         tasks[n].pc \in {"apWrite", "apWritten"}
         => hasFileLock(Target(tasks[n]))
    /\ \A x \in 1..Len(timers) : hasFileLock(timers[x].file)

(* C15: every lock the pipeline adds is released in the end, also when the *)
(* write that follows fails.  Once no execution is in flight, only a       *)
(* pending timer can still release a lock (later events pass over a locked *)
(* path), so a locked path then has its release timer pending.             *)
C15_NoLockLeftBehind ==
    Active = {}
    => \A f \in locks : \E x \in 1..Len(timers) : timers[x].file = f

(* the siblings the task passed over in applyTranslationsToFiles because   *)
(* their lock was held                                                     *)
LockSkipped(tk) == tk.excused \ tk.unread

(* the file holds a non-empty value at every path assigned to it *)
HoldsAssigned(f, assigned) ==
    /\ ~file[f].bad
    /\ \A x \in 1..Len(assigned) :
         NonEmptyString(Resolve(Parse(file[f]), assigned[x].path))

(* C16: a sibling passed over because its lock was held does not lose the  *)
(* change (here: edited values, which the apply step writes).  Once the    *)
(* event has completed, the lock is released and nothing is in flight,     *)
(* either the sibling holds values at the assigned paths or the change is  *)
(* still there for a later event of the same source file to find: the      *)
(* baseline of the source has not moved on to the new content.             *)
C16_SkippedChangeNotLost ==
    \A n \in TaskIds : \A f \in Files :
        LET tk == tasks[n]
        IN  (/\ tk.pc = "done" /\ tk.outcome = "ok"
             /\ f \in LockSkipped(tk) /\ tk.trans[f] # <<>>
             /\ \A x \in 1..Len(tk.trans[f]) : tk.trans[f][x].kind = "E"
             /\ Active = {} /\ ~hasFileLock(f))
            => \/ HoldsAssigned(f, tk.trans[f])
               \/ store[tk.src] # Parse(tk.content)

(* the execution returned without an error *)
CompletedWithoutError(tk) ==
    tk.pc = "done" /\ tk.outcome \in {"ok", "nodiffs", "norelevant"}

(* C19: after an event for a path with content c has completed without     *)
(* error, a later event for the path with the same content finds no diffs  *)
(* and stops without a provider call, a lock or a write.                   *)
C19_SameContentFindsNoDiffs ==
    \A n \in TaskIds, m \in TaskIds :
        (/\ n < m /\ n \notin tasks[m].overlap
         /\ tasks[n].src = tasks[m].src
         /\ tasks[n].content = tasks[m].content
         /\ CompletedWithoutError(tasks[n]))
        => /\ tasks[m].outcome = "nodiffs"
           /\ tasks[m].calls = {} /\ Issued(tasks[m]) = {}

(* the step in which task n returns from applyTranslationsToFiles and      *)
(* updateEntry of line 90 runs                                             *)
Commits(n) == tasks[n].outcome # "ok" /\ tasks'[n].outcome = "ok"

(* C21: when an event has passed translation and apply without error, the  *)
(* store entry of the originating file is the parsed new content of the    *)
(* event right after, and at that update every write the event issued for  *)
(* a sibling has completed.                                                *)
C21_BaselineCommittedAfterWrites ==
    [][\A n \in TaskIds :
         Commits(n)
         => /\ store'[tasks[n].src] = Parse(tasks[n].content)
            /\ Issued(tasks'[n]) = Written(tasks'[n])
            /\ tasks[n].pc \in {"apRead", "apWritten", "trRead", "trCall"}
       ]_vars

(* C21, its case: an event that wrote a sibling has committed its baseline *)
C21_CommittedAfterSiblingWrite ==
    \E n \in TaskIds :
        /\ tasks[n].outcome = "ok" /\ Written(tasks[n]) # {}
        /\ store[tasks[n].src] = Parse(tasks[n].content)

(* the keys of the target that no entry assigned to it addresses *)
Unassigned(tk, f) ==
    {k \in Keys : \A x \in 1..Len(tk.trans[f]) : tk.trans[f][x].path # <<k>>}

(* C25: the content the pipeline writes to a sibling is computed from the  *)
(* content of the file at the re-read of the apply step: at every path     *)
(* that is not among the sibling's assigned entries, the content to write  *)
(* holds what the file holds at that moment, an edit made since the read   *)
(* of translateChanges included.                                           *)
C25_WrittenFromFreshRead ==
    [][\A n \in TaskIds :
         (tasks[n].pc = "apRead" /\ tasks'[n].pc = "apWrite")
         => \A k \in Unassigned(tasks[n], Target(tasks[n])) :
               Resolve(Parse(tasks'[n].wtext), <<k>>)
                  = Resolve(Parse(file[Target(tasks[n])]), <<k>>)
       ]_vars

(* C25, its case: the sibling was edited at an unassigned path between the *)
(* two reads, and the event wrote the edit back                            *)
C25_EditBetweenReadsWritten ==
    \E n \in TaskIds : \E f \in Written(tasks[n]) :
        \E k \in Unassigned(tasks[n], f) :
            /\ tasks[n].trans[f] # <<>>
            /\ tasks[n].snap[f] # Undef
            /\ Resolve(tasks[n].snap[f], <<k>>)
                  # Resolve(tasks[n].reread[f], <<k>>)
            /\ Resolve(tasks[n].wrote[f], <<k>>)
                  = Resolve(tasks[n].reread[f], <<k>>)

(* task n has issued a write to f that has not returned yet *)
WriteInFlight(n, f) ==
    tasks[n].pc \in {"apWrite", "apWritten"} /\ Target(tasks[n]) = f

(* C26: no two writes of the pipeline to the same sibling are in flight at *)
(* the same time, and no execution overwrites what another execution wrote *)
(* to a sibling with content computed from a read made before that write.  *)
C26_PipelineWritesExclusive ==
    \A n \in TaskIds, m \in TaskIds : \A f \in Files :
        n # m
        => /\ ~(WriteInFlight(n, f) /\ WriteInFlight(m, f))
           /\ (/\ tasks[n].pc = "apWritten" /\ Target(tasks[n]) = f
               /\ f \in Written(tasks[m])
               /\ tasks[n].over[f] = tasks[m].wrote[f])
              => tasks[n].reread[f] = tasks[n].over[f]

(* the step is one of task n *)
StepOf(n) == n > Len(tasks) \/ tasks'[n] # tasks[n]

(* the step is the commit of task n after translation and apply returned   *)
(* without an error reaching the catch block                               *)
CommitOf(n) == n <= Len(tasks) /\ Commits(n) /\ tasks'[n].failure = ""

(* C27: an event changes the store entry of its originating file only by   *)
(* the commit after apply: no other step of the event does, whether it     *)
(* stops early (no diffs, no relevant changes), throws, or ends in the     *)
(* catch block after a failure in translation or write.                    *)
C27_BaselineChangedOnlyByCommit ==
    [][\A n \in 1..Len(tasks') :
         (StepOf(n) /\ ~CommitOf(n))
         => store'[tasks'[n].src] = store[tasks'[n].src]
       ]_vars

(* C27, its case: an event whose provider call failed has ended and the    *)
(* store entry of its file is still the old baseline                       *)
C27_FailedEventKeptBaseline ==
    \E n \in TaskIds :
        /\ tasks[n].pc = "done" /\ tasks[n].failure = "provider"
        /\ store[tasks[n].src] # Parse(tasks[n].content)

(* the user has not edited file f *)
NeverEdited(f) ==
    /\ UserEvent(f) \notin pending
    /\ f \notin dropped
    /\ \A m \in TaskIds : ~(tasks[m].src = f /\ tasks[m].cause = "user")

(* C28: the pipeline updates the store entry of a sibling after the write  *)
(* to it has returned, with the content written; so when the pipeline has  *)
(* written a sibling that nobody else has edited, the lock on it is not    *)
(* held and no write to it is in flight, the store entry of the sibling is *)
(* the parsed content of the file.                                         *)
C28_SiblingStoreMatchesFile ==
    \A f \in TrackedFiles :
        (/\ \E n \in TaskIds : f \in Written(tasks[n])
         /\ NeverEdited(f)
         /\ ~hasFileLock(f)
         /\ \A n \in TaskIds : ~WriteInFlight(n, f))
        => ~file[f].bad /\ store[f] = Parse(file[f])

---------------------------------------------------------------------------
(* The handler chain on its own: BaseActionModule.setNext and execute.     *)
(* doExecute returns no value: a module that has nothing to do (such as    *)
(* TranslationModule when it finds no diffs) just returns early.           *)

(* the pipeline at rest, while another part is looked at on its own *)
PipelineIdle ==
    /\ tracked = SubSeq(FileSeq, 1, 2)
    /\ file = [f \in Files |-> Text(Obj(<<>>), FALSE)]
    /\ store = [f \in Files |-> Obj(<<>>)]
    /\ locks = {}
    /\ timers = <<>>
    /\ pending = {}
    /\ tasks = <<>>
    /\ status = "idle"
    /\ disabled = FALSE
    /\ dropped = {}
    /\ edits = 0
    /\ faults = 0

(* what doExecute of a module can do for an event: do its work and return, *)
(* return early because there is nothing to do, or throw                   *)
Behaviours == {"continue", "halt", "throw"}

chainFrame == <<pipelineVars, watchVars, diffVars, cacheVars, filterVars,
                translateVars,
                applyVars>>

ChainInit == PipelineIdle /\ ChainIdle /\ WatchIdle /\ DiffIdle /\ CacheIdle /\ FilterIdle /\ TranslateIdle /\ ApplyIdle

(* setNext(module), while the chain is composed *)
setNext(m, x) ==
    /\ executing = 0
    /\ x = 0 \/ x > m
    /\ nextModule' = [nextModule EXCEPT ![m] = x]
    /\ UNCHANGED <<doExecute, executing, executed, settled>>
    /\ UNCHANGED chainFrame

(* an event: execute(context) is called on the first module *)
execute(b) ==
    /\ executing = 0
    /\ doExecute' = b
    /\ executing' = 1
    /\ executed' = <<>>
    /\ settled' = ""
    /\ UNCHANGED nextModule
    /\ UNCHANGED chainFrame

(* an execute that calls this.nextModule.execute without looking at it *)
ForwardsToAny(m) == doExecute[m] # "throw"

(* if (this.nextModule): after doExecute has returned, whatever it did *)
Forwards(m) == doExecute[m] # "throw" /\ nextModule[m] # 0

(* await this.doExecute(context) returns or throws; then the successor *)
DoExecuteDone ==
    /\ executing # 0
    /\ executed' = Append(executed, executing)
    /\ IF Forwards(executing)
       THEN /\ executing' = nextModule[executing]
            /\ UNCHANGED settled
       ELSE /\ executing' = 0
            /\ settled' = IF doExecute[executing] = "throw" THEN "rejected"
                          ELSE "resolved"
    /\ UNCHANGED <<nextModule, doExecute>>
    /\ UNCHANGED chainFrame

ChainNext ==
    \/ \E m \in Modules, x \in {0} \cup Modules : setNext(m, x)
    \/ \E b \in [Modules -> Behaviours] : execute(b)
    \/ DoExecuteDone

ChainSpec == ChainInit /\ [][ChainNext]_vars

(* C13: the successor of a module runs only if that module signalled       *)
(* continuation: after a module that returned early (nothing to do) or     *)
(* threw, no later module runs for the event.                              *)
C13_SuccessorOnlyOnContinue ==
    \A i \in 1..(Len(executed) - 1) : doExecute[executed[i]] = "continue"

(* C29: one call of execute on the first module of a chain runs the logic  *)
(* of the modules in the order of the chain, each at most once; the logic  *)
(* of a module starts only when that of all modules before it in the chain *)
(* has completed; and the invocation goes on only to a successor, so that  *)
(* it has ended once a module without successor is through.                *)
C29_ChainRunsInOrderOnceEach ==
    LET n == Len(executed)
    IN  /\ n > 0 => executed[1] = 1
        /\ \A i \in 1..n, j \in 1..n : i # j => executed[i] # executed[j]
        /\ executing # 0
           => /\ settled = ""
              /\ \A i \in 1..n : executed[i] # executing
              /\ \A i \in 1..(n - 1) :
                    executed[i + 1] = nextModule[executed[i]]
              /\ executing = IF n = 0 THEN 1 ELSE nextModule[executed[n]]
        /\ (executing = 0 /\ n > 0) => settled \in {"resolved", "rejected"}

(* C29, its case: an invocation has run through a chain of all modules *)
C29_WholeChainRan ==
    /\ executing = 0 /\ settled = "resolved"
    /\ Len(executed) = NumModules

---------------------------------------------------------------------------
(* The file watchers on their own: createFileWatchersForFilesMatchingGlob- *)
(* Async and the onDidChange callback it registers.  The disable flags are *)
(* functions; what they return can change after the watchers were created. *)

watchFrame == <<pipelineVars, chainVars, diffVars, cacheVars, filterVars,
                translateVars,
                applyVars>>

WatchInit == PipelineIdle /\ ChainIdle /\ WatchIdle /\ DiffIdle /\ CacheIdle /\ FilterIdle /\ TranslateIdle /\ ApplyIdle

(* one watcher per file found; the factory gives a handler for the file or *)
(* undefined                                                               *)
createFileWatchers(found, handlers) ==
    /\ watchers = {}
    /\ found # {}
    /\ watchers' = { [file |-> f, handler |-> handlers[f],
                      then |-> disableFlags] : f \in found }
    /\ UNCHANGED <<disableFlags, lastEvent>>
    /\ UNCHANGED watchFrame

(* a disable flag starts to return the other value (a setting changed) *)
FlagChanges(i) ==
    /\ disableFlags' = [disableFlags EXCEPT ![i] = ~@]
    /\ UNCHANGED <<watchers, lastEvent>>
    /\ UNCHANGED watchFrame

(* flags that were called once, when the watcher was created *)
FlagsAllowedAtCreation(w) == ~\E i \in Flags : w.then[i]

(* !disableFlags.some(flag => flag()), evaluated in the callback *)
FlagsAllow(w) == ~\E i \in Flags : disableFlags[i]

(* the callback given to fileWatcher.onDidChange *)
onDidChange(w) ==
    /\ w \in watchers
    /\ lastEvent' = [file |-> w.file, flags |-> disableFlags, then |-> w.then,
                     handler |-> w.handler,
                     invoked |-> IF FlagsAllow(w) /\ w.handler THEN 1 ELSE 0]
    /\ UNCHANGED <<disableFlags, watchers>>
    /\ UNCHANGED watchFrame

WatchNext ==
    \/ \E found \in SUBSET {FileSeq[1], FileSeq[2]} :
          \E handlers \in [found -> BOOLEAN] :
             createFileWatchers(found, handlers)
    \/ \E i \in Flags : FlagChanges(i)
    \/ \E w \in watchers : onDidChange(w)

WatchSpec == WatchInit /\ [][WatchNext]_vars

(* C17: for every change event a watcher delivers for a file that has a    *)
(* handler, the handler is invoked once if every disable flag returns      *)
(* false at the time of the event and not at all if one returns true.      *)
C17_HandlerInvokedIffFlagsFalseAtEvent ==
    (lastEvent # NoEvent /\ lastEvent.handler)
    => lastEvent.invoked =
          (IF \A i \in Flags : ~lastEvent.flags[i] THEN 1 ELSE 0)

(* C17, its case: an event was not handled because of a flag that returned *)
(* false when the watcher was created and true at the time of the event    *)
C17_FlagTurnedOnAfterCreation ==
    /\ lastEvent.handler /\ lastEvent.invoked = 0
    /\ \A i \in Flags : ~lastEvent.then[i]

---------------------------------------------------------------------------
(* The diff engine on its own: diffJsonObjects and applyChange over all    *)
(* pairs of trees of a bounded set (objects of strings and of objects of   *)
(* strings, no arrays).                                                    *)

diffFrame == <<pipelineVars, chainVars, watchVars, cacheVars, filterVars,
               translateVars,
               applyVars>>

Leaves == {Str("p"), Str("q")}

ObjectsOf(values) ==
    {Obj(f) : f \in UNION {[ks -> values] : ks \in SUBSET Keys}}

DiffTrees == ObjectsOf(Leaves \cup ObjectsOf(Leaves))

DiffInit ==
    /\ PipelineIdle /\ ChainIdle /\ WatchIdle /\ CacheIdle /\ FilterIdle /\ TranslateIdle /\ ApplyIdle
    /\ treeA \in DiffTrees
    /\ treeB \in DiffTrees
    /\ rebuilt = treeA
    /\ applied = FALSE

(* an applier that sets a value only where the target already has one, as  *)
(* applyDiffsToJSON of the pipeline does                                   *)
applyChangeWhereDefined(target, e) == ApplyOne(target, e)

(* applyChange of the diff engine: one entry applied to the tree *)
applyChange(target, e) ==
    IF e.kind = "D" THEN UnsetPath(target, e.path)
    ELSE SetPath(target, e.path, e.rhs)

RECURSIVE applyChanges(_, _)
applyChanges(target, diffs) ==
    IF diffs = <<>> THEN target
    ELSE applyChanges(applyChange(target, Head(diffs)), Tail(diffs))

(* the entries of the diff of the two trees are applied to the old tree *)
ApplyDiff ==
    /\ ~applied
    /\ rebuilt' = applyChanges(treeA, diffJsonObjects(treeA, treeB))
    /\ applied' = TRUE
    /\ UNCHANGED <<treeA, treeB>>
    /\ UNCHANGED diffFrame

DiffNext == ApplyDiff

DiffSpec == DiffInit /\ [][DiffNext]_vars

(* C18: for all trees A and B, applying the entries of Diff(A, B) (added,  *)
(* edited, deleted) to A gives a tree equal to B.                          *)
C18_DiffRoundTrip == applied => rebuilt = treeB

(* C18, its case: a diff with an added, an edited and a deleted entry was  *)
(* applied                                                                 *)
C18_AllKindsApplied ==
    /\ applied
    /\ LET diffs == diffJsonObjects(treeA, treeB)
       IN  \A kind \in {"N", "E", "D"} :
              \E x \in 1..Len(diffs) : diffs[x].kind = kind

---------------------------------------------------------------------------
(* The translation result cache: CacheEntry {value, timestamp}, get and    *)
(* set, and the caller that fetches from the provider on a miss.           *)

cacheFrame == <<pipelineVars, chainVars, watchVars, diffVars, filterVars,
                translateVars,
                applyVars>>

CacheInit == PipelineIdle /\ ChainIdle /\ WatchIdle /\ DiffIdle /\ CacheIdle /\ FilterIdle /\ TranslateIdle /\ ApplyIdle

(* time passes *)
Tick ==
    /\ now < MaxTime
    /\ now' = now + 1
    /\ UNCHANGED <<cache, provider, lastGet>>
    /\ UNCHANGED cacheFrame

(* the provider starts to return another value for the key *)
ProviderChanges(k) ==
    /\ provider' = [provider EXCEPT ![k] = 3 - @]
    /\ UNCHANGED <<now, cache, lastGet>>
    /\ UNCHANGED cacheFrame

(* an entry that still counts when its age has reached its ttl *)
IsValidAtTtl(entry) == entry.present /\ now - entry.timestamp <= entry.ttl

(* an entry is valid only while now - timestamp < ttl *)
IsValid(entry) == entry.present /\ now - entry.timestamp < entry.ttl

(* get(key): the value of a valid entry, or a miss *)
get(k) == IF IsValid(cache[k]) THEN cache[k].value ELSE 0

(* set(key, value, ttl) *)
set(k, value, ttl) ==
    [cache EXCEPT ![k] = [present |-> TRUE, value |-> value,
                          timestamp |-> now, ttl |-> ttl]]

(* a lookup by a caller: get, and on a miss fetch from the provider and    *)
(* populate the cache                                                      *)
Lookup(k, ttl) ==
    /\ IF IsValid(cache[k])
       THEN /\ lastGet' = [key |-> k, at |-> now, hit |-> TRUE,
                           value |-> get(k), found |-> cache[k]]
            /\ UNCHANGED cache
       ELSE /\ lastGet' = [key |-> k, at |-> now, hit |-> FALSE,
                           value |-> provider[k], found |-> cache[k]]
            /\ cache' = set(k, provider[k], ttl)
    /\ UNCHANGED <<now, provider>>
    /\ UNCHANGED cacheFrame

CacheNext ==
    \/ Tick
    \/ \E k \in CacheKeys : ProviderChanges(k)
    \/ \E k \in CacheKeys, ttl \in 1..MaxTtl : Lookup(k, ttl)

CacheSpec == CacheInit /\ [][CacheNext]_vars

(* the age the entry found by the last lookup had at the lookup *)
AgeFound == lastGet.at - lastGet.found.timestamp

(* C20: a lookup returns the cached value only while the entry's age is    *)
(* below its ttl; an entry whose age has reached its ttl is a miss, the    *)
(* value is fetched from the provider and the entry is replaced.           *)
C20_StaleEntryIsMissAndReplaced ==
    lastGet # NoGet
    => /\ lastGet.hit
          => /\ lastGet.found.present /\ AgeFound < lastGet.found.ttl
             /\ lastGet.value = lastGet.found.value
       /\ (lastGet.found.present /\ AgeFound >= lastGet.found.ttl)
          => ~lastGet.hit
       /\ ~lastGet.hit
          => /\ cache[lastGet.key].present
             /\ cache[lastGet.key].timestamp = lastGet.at
             /\ cache[lastGet.key].value = lastGet.value

(* C20, its case: a lookup found an entry whose age had just reached its   *)
(* ttl and whose value the provider no longer returns, and replaced it     *)
C20_EntryReplacedAtTtl ==
    /\ lastGet.found.present /\ AgeFound = lastGet.found.ttl
    /\ ~lastGet.hit
    /\ lastGet.value # lastGet.found.value

---------------------------------------------------------------------------
(* The relevant-change filter on its own: extractRelevantChanges over      *)
(* lists of diff entries whose new value is null, a string, or an object   *)
(* of such values up to two levels deep.                                   *)

filterFrame == <<pipelineVars, chainVars, watchVars, diffVars, cacheVars,
                 translateVars,
                 applyVars>>

FilterLeaves == {Str(""), Str("p")}

(* objects inside the new value: {}, {"a": ""}, {"a": "p"} *)
FilterInner ==
    {Obj(<<>>)} \cup {Obj([k \in {"a"} |-> v]) : v \in FilterLeaves}

(* the new values (rhs) of added and edited entries *)
FilterValues ==
    {Null} \cup FilterLeaves
           \cup ObjectsOf({Null} \cup FilterLeaves \cup FilterInner)

(* the entries a diff can hold: added and edited ones with a new value,    *)
(* deleted ones and array changes (kind A) without                         *)
FilterEntries ==
    {Entry("N", <<"a">>, Undef, v) : v \in FilterValues}
    \cup {Entry("E", <<"a">>, Str("q"), v) : v \in FilterValues}
    \cup {Entry("D", <<"a">>, Str("q"), Undef),
          [kind |-> "A", path |-> <<"a">>, lhs |-> Undef, rhs |-> Undef]}

FilterInit ==
    /\ PipelineIdle /\ ChainIdle /\ WatchIdle /\ DiffIdle /\ CacheIdle
    /\ TranslateIdle /\ ApplyIdle
    /\ filterDiffs \in UNION {[1..n -> FilterEntries] : n \in 0..MaxEntries}
    /\ filterKept = <<>>
    /\ filterDone = FALSE

(* const changesToTranslate = this.extractRelevantChanges(diffs) *)
Filter ==
    /\ ~filterDone
    /\ filterKept' = extractRelevantChanges(filterDiffs)
    /\ filterDone' = TRUE
    /\ UNCHANGED filterDiffs
    /\ UNCHANGED filterFrame

FilterNext == Filter

FilterSpec == FilterInit /\ [][FilterNext]_vars

(* the value holds a non-empty string at some depth *)
RECURSIVE HasNonEmptyLeaf(_)
HasNonEmptyLeaf(v) ==
    \/ v.t = "str" /\ v.s # ""
    \/ v.t = "obj" /\ \E k \in DOMAIN v.m : HasNonEmptyLeaf(v.m[k])

(* C22: the filter keeps, in their order, exactly the entries whose kind   *)
(* is added or edited and whose new value is a non-empty string or an      *)
(* object with a non-empty string leaf at some depth; deleted entries,     *)
(* array changes, the new value "" and objects without such a leaf are     *)
(* removed.                                                                *)
C22_FilterKeepsExactlyRelevant ==
    filterDone
    => filterKept =
         SelectSeq(filterDiffs,
                   LAMBDA e : e.kind \in {"N", "E"} /\ HasNonEmptyLeaf(e.rhs))

(* C22, its case: of two entries the filter kept the one whose only        *)
(* non-empty string lies two levels deep and removed a deleted one         *)
C22_DeepLeafKeptDeletedRemoved ==
    /\ filterDone /\ Len(filterDiffs) = 2 /\ Len(filterKept) = 1
    /\ \E x \in 1..2 : filterDiffs[x].kind = "D"
    /\ filterKept[1].rhs.t = "obj"
    /\ \A k \in DOMAIN filterKept[1].rhs.m :
          ~HasNonEmptyLeaf(filterKept[1].rhs.m[k])
          \/ filterKept[1].rhs.m[k].t = "obj"

---------------------------------------------------------------------------
(* translateChanges on its own: one event with its relevant changes, the   *)
(* target files in the order of findRelatedFiles, each with the content    *)
(* the loop reads from it.                                                 *)

translateFrame == <<pipelineVars, chainVars, watchVars, diffVars, cacheVars,
                    filterVars,
                    applyVars>>

(* otherFiles of an event for the first file *)
TcTargets == Tail(FileSeq)

(* the new values of the changes: two strings the provider tells apart *)
TcValues == {Str("p"), Str("q")}

(* the relevant changes of an event: one entry per changed key, in the     *)
(* order of the diff                                                       *)
TcChangeLists ==
    LET at(k) == {Entry(kind, <<k>>, Undef, v) :
                     kind \in {"N", "E"}, v \in TcValues}
    IN  {<<e>> : e \in at("a") \cup at("b")}
        \cup {<<e1, e2>> : e1 \in at("a"), e2 \in at("b")}

(* what a target file can hold at a changed key: nothing, null, "", or a   *)
(* value of its own                                                        *)
TcTrees ==
    {Obj(f) : f \in UNION {[ks -> {Null, Str(""), Str("x")}] :
                              ks \in SUBSET Keys}}

TranslateInit ==
    /\ PipelineIdle /\ ChainIdle /\ WatchIdle /\ DiffIdle /\ CacheIdle
    /\ FilterIdle /\ ApplyIdle
    /\ tcChanges \in TcChangeLists
    /\ tcContent \in [{TcTargets[j] : j \in 1..Len(TcTargets)} -> TcTrees]
    /\ tcIndex = 0
    /\ tcCalls = <<>>
    /\ translationsByLanguage =
          [f \in {TcTargets[j] : j \in 1..Len(TcTargets)} |-> <<>>]
    /\ tcState = "running"

(* the state after the body of the loop has run for a target file *)
TcAdvance == IF tcIndex + 1 = Len(TcTargets) THEN "returned" ELSE "running"

(* one pass of the loop of translateChanges: the read and JSON.parse of    *)
(* the target file, the filter of its candidates, and the provider call    *)
(* for them if there are any                                               *)
translateChanges(readOk, callOk) ==
    /\ tcState = "running"
    /\ LET f == TcTargets[tcIndex + 1]
           fileContent == tcContent[f]
           changesToTranslate ==
               SelectSeq(tcChanges, LAMBDA e : IsCandidate(fileContent, e))
           valuesToTranslate == SeqMap(LAMBDA e : e.rhs, changesToTranslate)
           translatedValues == translateKeys(valuesToTranslate)
           call == [target |-> f, values |-> valuesToTranslate,
                    returned |-> IF callOk THEN translatedValues ELSE <<>>]
       IN  IF ~readOk
           THEN /\ tcState' = "threw"
                /\ UNCHANGED <<tcIndex, tcCalls, translationsByLanguage>>
           ELSE IF changesToTranslate = <<>>
           THEN /\ tcIndex' = tcIndex + 1
                /\ tcState' = TcAdvance
                /\ UNCHANGED <<tcCalls, translationsByLanguage>>
           ELSE /\ tcCalls' = Append(tcCalls, call)
                /\ IF callOk
                   THEN /\ translationsByLanguage' =
                             [translationsByLanguage EXCEPT
                                ![f] = Assigned(changesToTranslate,
                                                translatedValues)]
                        /\ tcIndex' = tcIndex + 1
                        /\ tcState' = TcAdvance
                   ELSE /\ tcState' = "threw"
                        /\ UNCHANGED <<tcIndex, translationsByLanguage>>
    /\ UNCHANGED <<tcChanges, tcContent>>
    /\ UNCHANGED translateFrame

TranslateNextStep ==
    \E readOk \in BOOLEAN, callOk \in BOOLEAN :
        translateChanges(readOk, callOk)

TranslateSpec == TranslateInit /\ [][TranslateNextStep]_vars

(* the provider calls made for target file f *)
CallsFor(f) == {x \in 1..Len(tcCalls) : tcCalls[x].target = f}

(* the positions in the changes whose path is missing, null or empty in    *)
(* the content of target file f                                            *)
CandidatePositions(f) ==
    {x \in 1..Len(tcChanges) :
        Resolve(tcContent[f], tcChanges[x].path) \in {Undef, Null, Str("")}}

(* the x-th smallest of a set of positions *)
NthOf(ps, x) ==
    CHOOSE p \in ps : Cardinality({q \in ps : q <= p}) = x

(* C23: for one event, each sibling gets at most one provider call; a      *)
(* sibling the loop got through got one exactly when it has a candidate    *)
(* path, the call carried the new values of the candidates in diff order,  *)
(* and the i-th returned value is assigned to the i-th candidate entry.    *)
(* A sibling the loop did not reach (an earlier read or call failed) got   *)
(* none.                                                                   *)
C23_OneBatchPerSiblingPositional ==
    \A j \in 1..Len(TcTargets) :
        LET f == TcTargets[j]
            ps == CandidatePositions(f)
        IN  /\ Cardinality(CallsFor(f)) <= 1
            /\ j > tcIndex + 1 => CallsFor(f) = {}
            /\ CallsFor(f) # {} => ps # {}
            /\ j <= tcIndex
               => /\ ps # {} => CallsFor(f) # {}
                  /\ Len(translationsByLanguage[f]) = Cardinality(ps)
                  /\ \A x \in CallsFor(f) :
                       /\ Len(tcCalls[x].values) = Cardinality(ps)
                       /\ \A i \in 1..Cardinality(ps) :
                            LET e == tcChanges[NthOf(ps, i)]
                                t == translationsByLanguage[f][i]
                            IN  /\ tcCalls[x].values[i] = e.rhs
                                /\ t.path = e.path /\ t.kind = e.kind
                                /\ t.rhs = tcCalls[x].returned[i]

(* C23, its case: the loop returned after a call for a sibling with two    *)
(* candidates whose returned values differ and no call for a sibling       *)
(* without candidates                                                      *)
C23_TwoCandidatesBatched ==
    /\ tcState = "returned"
    /\ \E x \in 1..Len(tcCalls) :
          /\ Len(tcCalls[x].returned) = 2
          /\ tcCalls[x].returned[1] # tcCalls[x].returned[2]
    /\ \E j \in 1..Len(TcTargets) : CallsFor(TcTargets[j]) = {}

---------------------------------------------------------------------------
(* applyDiffsToJSON on its own: a freshly read tree and the entries        *)
(* assigned to the file (added: kind N, edited: kind E, deleted: kind D).  *)

applyFrame == <<pipelineVars, chainVars, watchVars, diffVars, cacheVars,
                filterVars, translateVars>>

(* the assigned entries: at most one per key, with the translated value *)
ApplyLists ==
    LET at(k) == {Entry("N", <<k>>, Undef, Str("P")),
                  Entry("E", <<k>>, Str(""), Str("P")),
                  Entry("D", <<k>>, Str("x"), Undef)}
    IN  {<<e>> : e \in at("a") \cup at("b")}
        \cup {<<e1, e2>> : e1 \in at("a"), e2 \in at("b")}

ApplyInit ==
    /\ PipelineIdle /\ ChainIdle /\ WatchIdle /\ DiffIdle /\ CacheIdle
    /\ FilterIdle /\ TranslateIdle
    /\ applyTarget \in TcTrees
    /\ applyDiffs \in ApplyLists
    /\ applyResult = applyTarget
    /\ applyDone = FALSE

(* this.applyDiffsToJSON(fileContent, diffs) *)
Apply ==
    /\ ~applyDone
    /\ applyResult' = applyDiffsToJSON(applyTarget, applyDiffs)
    /\ applyDone' = TRUE
    /\ UNCHANGED <<applyTarget, applyDiffs>>
    /\ UNCHANGED applyFrame

ApplyNext == Apply

ApplySpec == ApplyInit /\ [][ApplyNext]_vars

(* C24: once the assigned entries are applied, the path of an added or     *)
(* edited entry holds the entry's value if and only if the path resolved   *)
(* to a defined value ("" and null included) in the tree read, being left  *)
(* as it was otherwise, and the path of a deleted entry is gone.           *)
C24_SetIffDefinedDeletedRemoved ==
    applyDone
    => \A x \in 1..Len(applyDiffs) :
         LET e == applyDiffs[x]
             before == Resolve(applyTarget, e.path)
             after == Resolve(applyResult, e.path)
         IN  /\ (e.kind \in {"N", "E"} /\ before # Undef) => after = e.rhs
             /\ (e.kind \in {"N", "E"} /\ before = Undef) => after = Undef
             /\ e.kind = "D" => after = Undef

=============================================================================
